---- MODULE Spec2Model ----
(***************************************************************************)
(* Model of `uv init` (crates/uv/src/commands/project/init.rs).            *)
(*                                                                         *)
(* The state is the file system the command works on plus, for every       *)
(* running invocation, the locals of `init` and its position in the        *)
(* function body.  Paths are sequences of std::path components; the root   *)
(* component is written "/".  Option<T> is a sequence of length 0 (None)   *)
(* or 1 (Some).                                                            *)
(***************************************************************************)
EXTENDS Naturals, Sequences, FiniteSets, TLC

VARIABLES
    dirs,   \* the directories that exist (absolute paths)
    files,  \* the regular files that exist: absolute path -> content
    calls,  \* how many invocations have been started
    inv     \* inv[i]: the locals and position of invocation i

vars == <<dirs, files, calls, inv>>

(***************************************************************************)
(* Bounds of the model.                                                    *)
(***************************************************************************)
\* invocations started one after another under Spec
MaxCalls == 1
\* invocations started one after another under SpecRerun
MaxRuns == 2
\* invocations started, by either process, under SpecConc
MaxConc == 2

Procs == {1, 2}
\* the sequential specifications run every invocation as process 1
SeqProcs == {1}

None == <<>>
Some(x) == <<x>>

\* the directories `uv init` is started in
CurDirs == { <<"/", "ws">>, <<"/", "ws", "app">> }
\* the values of the `path` argument
TargetPaths == { <<>>, <<"pkg">>, <<"my pkg">>, <<"/", "out">>, <<"/">> }
\* the values of the `name` argument (already validated by the CLI parser)
NameArgs == { "lib" }
\* the interpreter versions the resolver can come back with
PythonVersions == { "3.12" }

(***************************************************************************)
(* std::path                                                               *)
(***************************************************************************)
\* Path::is_absolute
IsAbsolute(p) == Len(p) > 0 /\ p[1] = "/"

\* Path::join: an absolute argument replaces the base
Join(base, p) == IF IsAbsolute(p) THEN p ELSE base \o p

\* Path::file_name: the last component when it is a normal one
FileName(p) ==
    IF Len(p) = 0 \/ p[Len(p)] \in {"/", ".."} THEN None ELSE Some(p[Len(p)])

\* a relative path handed to the file system is taken from the process's
\* working directory, which is `current_dir`
Resolve(current_dir, p) == Join(current_dir, p)

\* a directory and all the directories above it
Ancestors(d) == { SubSeq(d, 1, k) : k \in 1..Len(d) }

Range(s) == { s[k] : k \in 1..Len(s) }

(***************************************************************************)
(* File contents                                                           *)
(***************************************************************************)
\* the template with another starting version
PyprojectToml_Version(name) ==
    [ kind             |-> "pyproject.toml",
      name             |-> name,
      version          |-> "0.0.1",
      description      |-> "Add your description here",
      dependencies     |-> <<>>,
      readme           |-> "README.md",
      dev_dependencies |-> <<>>,
      members          |-> <<>> ]

\* the text `init` writes to pyproject.toml (lines 79-89); `members` is
\* tool.uv.workspace.members, which the template leaves out
PyprojectToml(name) ==
    [ kind             |-> "pyproject.toml",
      name             |-> name,
      version          |-> "0.1.0",
      description      |-> "Add your description here",
      dependencies     |-> <<>>,
      readme           |-> "README.md",
      dev_dependencies |-> <<>>,
      members          |-> <<>> ]

\* the text `init` writes to src/{name}/__init__.py (lines 98-101)
InitPy(name) == [ kind |-> "__init__.py", hello |-> name ]

\* String::new(), the README `init` writes (line 110)
EmptyReadme == [ kind |-> "text", text |-> "" ]

\* interpreter.python_version().to_string() (line 135)
PythonVersionFile(version) == [ kind |-> "text", text |-> version ]

\* content written by the user, not by `init`
UserText == [ kind |-> "text", text |-> "user" ]
UserInitPy == [ kind |-> "__init__.py", hello |-> "user" ]
UserPyprojectToml ==
    [ kind             |-> "pyproject.toml",
      name             |-> "ws",
      version          |-> "2.0.0",
      description      |-> "user",
      dependencies     |-> <<>>,
      readme           |-> "README.md",
      dev_dependencies |-> <<>>,
      members          |-> <<>> ]

(***************************************************************************)
(* Collaborators of `init`                                                 *)
(***************************************************************************)
\* the identifiers PackageName::new accepts
ValidIdentifiers == { "ws", "app", "pkg", "out", "lib" }

\* PackageName::new: the name, or None when it is no valid identifier
PackageNameNew(s) == IF s \in ValidIdentifiers THEN Some(s) ELSE None

\* ProjectWorkspace::discover: the project of the nearest directory at or
\* above `start` that holds a pyproject.toml, with the document as read
Discovered(start) ==
    LET found == { a \in Ancestors(start) :
                     (a \o <<"pyproject.toml">>) \in DOMAIN files }
    IN  IF found = {} THEN None
        ELSE LET root == CHOOSE a \in found : \A b \in found : Len(b) <= Len(a)
             IN  Some([ root           |-> root,
                        pyproject_toml |-> files[root \o <<"pyproject.toml">>] ])

\* PyProjectTomlMut::add_workspace: a new entry at the end of the member list
AddWorkspace(doc, path) == [doc EXCEPT !.members = Append(@, path)]

(***************************************************************************)
(* Invocations                                                             *)
(***************************************************************************)
\* an invocation that is not running.  `pc` is the position in the body of
\* `init`; `current_dir` .. `name` are its arguments and locals (`name_arg`
\* is the argument `name`, which the local `name` shadows); `result` is what
\* it returned and `at` the step it returned from; `stderr` is what it
\* printed; `log` lists the file system operations it carried out and `pre`
\* is the file system it was called on
Idle ==
    [ pc          |-> "idle",
      current_dir |-> <<>>,
      path        |-> None,
      name_arg    |-> None,
      no_readme   |-> FALSE,
      no_pin      |-> FALSE,
      preview     |-> FALSE,
      workspace   |-> None,
      project_dir |-> <<>>,
      name        |-> None,
      result      |-> "",
      at          |-> "",
      stderr      |-> <<>>,
      log         |-> <<>>,
      pre         |-> [dirs |-> {}, files |-> <<>>] ]

\* invocation `r` returns `result` from the step it is at
Finished(r, result) == [r EXCEPT !.pc = "done", !.result = result, !.at = r.pc]

\* invocation `r` goes on to step `pc`
Goto(r, pc) == [r EXCEPT !.pc = pc]

\* invocation `r` has carried out file system operation `op` on `p`
Logged(r, op, p) == [r EXCEPT !.log = Append(@, <<op, p>>)]

\* Path::exists / Path::try_exists for a regular file
Exists(current_dir, p) == Resolve(current_dir, p) \in DOMAIN files

\* fs_err::write: the file is created or replaced
Written(current_dir, p, content) == (Resolve(current_dir, p) :> content) @@ files

\* the file systems an invocation can be started on: a workspace manifest in
\* /ws or none, user files in /out or none
InitialFiles ==
    { ws @@ user :
        ws \in { <<>>, (<<"/", "ws", "pyproject.toml">> :> UserPyprojectToml) },
        user \in { <<>>,
                   (<<"/", "out", "README.md">> :> UserText)
                   @@ (<<"/", "out", "src", "out", "__init__.py">> :> UserInitPy)
                   @@ (<<"/", "out", ".python-version">> :> UserText) } }

InitialDirs(f) ==
    UNION { Ancestors(d) : d \in CurDirs }
    \cup UNION { Ancestors(SubSeq(p, 1, Len(p) - 1)) : p \in DOMAIN f }

Init ==
    /\ files \in InitialFiles
    /\ dirs = InitialDirs(files)
    /\ calls = 0
    /\ inv = [i \in Procs |-> Idle]

\* `init` is called (lines 24-40): the arguments are bound and the preview
\* warning is printed
CallWith(i, max, paths, names, readmeFlags, pinFlags, previewFlags) ==
    /\ inv[i].pc = "idle"
    /\ calls < max
    /\ calls' = calls + 1
    /\ \E cd \in CurDirs, p \in paths, n \in names,
          nr \in readmeFlags, np \in pinFlags, pv \in previewFlags :
         inv' = [inv EXCEPT ![i] =
                    [ Idle EXCEPT
                        !.pc          = "discover",
                        !.current_dir = cd,
                        !.path        = p,
                        !.name_arg    = n,
                        !.no_readme   = nr,
                        !.no_pin      = np,
                        !.preview     = pv,
                        !.stderr      = IF pv THEN <<>> ELSE << <<"warning">> >>,
                        !.pre         = [dirs |-> dirs, files |-> files] ]]
    /\ UNCHANGED <<dirs, files>>

Call(i) ==
    CallWith(i, MaxCalls,
             {None} \cup { Some(p) : p \in TargetPaths },
             {None} \cup { Some(n) : n \in NameArgs },
             BOOLEAN, BOOLEAN, BOOLEAN)

\* the workspace is discovered from the project directory
Discover_FromTarget(i) ==
    /\ inv[i].pc = "discover"
    /\ \/ inv' = [inv EXCEPT ![i] =
                    Goto([@ EXCEPT !.workspace =
                            Discovered(Join(inv[i].current_dir,
                                            IF inv[i].path = None
                                            THEN inv[i].current_dir
                                            ELSE inv[i].path[1]))],
                         "name")]
       \/ inv' = [inv EXCEPT ![i] = Finished(@, "DiscoveryError")]
       \/ inv' = [inv EXCEPT ![i] = Finished(@, "FilesystemError")]
    /\ UNCHANGED <<dirs, files, calls>>

\* every discovery failure is taken for "no manifest found"
Discover_ErrorsAsNone(i) ==
    /\ inv[i].pc = "discover"
    /\ \/ inv' = [inv EXCEPT ![i] =
                    Goto([@ EXCEPT !.workspace = Discovered(inv[i].current_dir)],
                         "name")]
       \/ inv' = [inv EXCEPT ![i] = Goto([@ EXCEPT !.workspace = None], "name")]
       \/ inv' = [inv EXCEPT ![i] = Finished(@, "FilesystemError")]
    /\ UNCHANGED <<dirs, files, calls>>

\* lines 42-48: the workspace is discovered from the current directory;
\* MissingPyprojectToml is no error, any other error is returned, and so is
\* a failure of current_dir() or canonicalize()
Discover(i) ==
    /\ inv[i].pc = "discover"
    /\ \/ inv' = [inv EXCEPT ![i] =
                    Goto([@ EXCEPT !.workspace = Discovered(inv[i].current_dir)],
                         "name")]
       \/ inv' = [inv EXCEPT ![i] = Finished(@, "DiscoveryError")]
       \/ inv' = [inv EXCEPT ![i] = Finished(@, "FilesystemError")]
    /\ UNCHANGED <<dirs, files, calls>>

\* the target path is ignored
ProjectDir_CurrentDir(current_dir, path) == current_dir

\* lines 50-53
ProjectDir(current_dir, path) == IF path = None THEN current_dir ELSE path[1]

\* lines 50-65: the project directory and the package name
ResolveName(i) ==
    /\ inv[i].pc = "name"
    /\ LET r           == inv[i]
           project_dir == ProjectDir(r.current_dir, r.path)
           located     == [r EXCEPT !.project_dir = project_dir]
       IN  inv' = [inv EXCEPT ![i] =
             IF r.name_arg # None
             THEN Goto([located EXCEPT !.name = r.name_arg], "check")
             ELSE IF FileName(project_dir) = None
             THEN \* .expect("Invalid package name") on None
                  Finished(located, "panic")
             ELSE LET name == PackageNameNew(FileName(project_dir)[1])
                  IN  IF name = None
                      THEN Finished(located, "InvalidName")
                      ELSE Goto([located EXCEPT !.name = name], "check")]
    /\ UNCHANGED <<dirs, files, calls>>

\* the manifest is looked for in the current directory
AlreadyInitialized_CurrentDir(current_dir, project_dir) ==
    Exists(current_dir, current_dir \o <<"pyproject.toml">>)

\* the manifest is not looked for
AlreadyInitialized_Never(current_dir, project_dir) == FALSE

\* line 68
AlreadyInitialized(current_dir, project_dir) ==
    Exists(current_dir, project_dir \o <<"pyproject.toml">>)

\* the source directory is created before the manifest is looked for
Check_AfterCreate(i) ==
    /\ inv[i].pc = "check"
    /\ LET r == inv[i]
           d == Resolve(r.current_dir, r.project_dir \o <<"src", r.name[1]>>)
       IN  /\ dirs' = dirs \cup Ancestors(d)
           /\ inv' = [inv EXCEPT ![i] =
                        IF Exists(r.current_dir,
                                  r.project_dir \o <<"pyproject.toml">>)
                        THEN Finished(Logged(@, "create_dir_all", d),
                                      "AlreadyInitialized")
                        ELSE Goto(@, "src_dir")]
    /\ UNCHANGED <<files, calls>>

\* lines 67-70: the package must not exist yet
Check(i) ==
    /\ inv[i].pc = "check"
    /\ inv' = [inv EXCEPT ![i] =
                 IF AlreadyInitialized(@.current_dir, @.project_dir)
                 THEN Finished(@, "AlreadyInitialized")
                 ELSE Goto(@, "src_dir")]
    /\ UNCHANGED <<dirs, files, calls>>

\* the source directory is taken relative to the current directory
SrcDir_Relative(project_dir, name) == <<"src", name>>

\* line 73
SrcDir(project_dir, name) == project_dir \o <<"src", name>>

\* the manifest is written before the source directory is created
CreateSrcDir_ManifestFirst(i) ==
    /\ inv[i].pc = "src_dir"
    /\ LET r == inv[i]
           d == Resolve(r.current_dir, r.project_dir \o <<"src", r.name[1]>>)
           p == r.project_dir \o <<"pyproject.toml">>
       IN  /\ files' = Written(r.current_dir, p, PyprojectToml(r.name[1]))
           /\ dirs' = dirs \cup Ancestors(d)
           /\ inv' = [inv EXCEPT ![i] =
                        Goto(Logged(Logged(@, "write", Resolve(r.current_dir, p)),
                                    "create_dir_all", d),
                             "init_py")]
    /\ UNCHANGED calls

\* lines 72-74: fs_err::create_dir_all(&src_dir)?
CreateSrcDir(i) ==
    /\ inv[i].pc = "src_dir"
    /\ LET r == inv[i]
           d == Resolve(r.current_dir, SrcDir(r.project_dir, r.name[1]))
       IN  \/ /\ dirs' = dirs \cup Ancestors(d)
              /\ inv' = [inv EXCEPT ![i] =
                           Goto(Logged(@, "create_dir_all", d), "pyproject")]
           \/ /\ inv' = [inv EXCEPT ![i] = Finished(@, "FilesystemError")]
              /\ UNCHANGED dirs
    /\ UNCHANGED <<files, calls>>

\* lines 76-90: fs_err::write(project_dir.join("pyproject.toml"), ...)?
WritePyproject(i) ==
    /\ inv[i].pc = "pyproject"
    /\ LET r == inv[i]
           p == r.project_dir \o <<"pyproject.toml">>
       IN  \/ /\ files' = Written(r.current_dir, p, PyprojectToml(r.name[1]))
              /\ inv' = [inv EXCEPT ![i] =
                           Goto(Logged(@, "write", Resolve(r.current_dir, p)),
                                "init_py")]
           \/ /\ inv' = [inv EXCEPT ![i] = Finished(@, "FilesystemError")]
              /\ UNCHANGED files
    /\ UNCHANGED <<dirs, calls>>

\* line 95: existing content is not overwritten
WritesInitPy(exists) == ~exists

\* lines 92-103: src/{name}/__init__.py
WriteInitPy(i) ==
    /\ inv[i].pc = "init_py"
    /\ LET r == inv[i]
           p == SrcDir(r.project_dir, r.name[1]) \o <<"__init__.py">>
       IN  \/ /\ WritesInitPy(Exists(r.current_dir, p))
              /\ files' = Written(r.current_dir, p, InitPy(r.name[1]))
              /\ inv' = [inv EXCEPT ![i] =
                           Goto(Logged(@, "write", Resolve(r.current_dir, p)),
                                "readme")]
           \/ /\ ~WritesInitPy(Exists(r.current_dir, p))
              /\ inv' = [inv EXCEPT ![i] = Goto(@, "readme")]
              /\ UNCHANGED files
           \/ \* try_exists()? or fs_err::write(..)? fails
              /\ inv' = [inv EXCEPT ![i] = Finished(@, "FilesystemError")]
              /\ UNCHANGED files
    /\ UNCHANGED <<dirs, calls>>

\* the README is written over
WritesReadme_Overwrite(no_readme, exists) == ~no_readme

\* the README is written whatever `no_readme` says
WritesReadme_Unasked(no_readme, exists) == ~exists

\* lines 106-109: the README is wanted and does not exist
WritesReadme(no_readme, exists) == ~no_readme /\ ~exists

\* lines 105-112: README.md
WriteReadme(i) ==
    /\ inv[i].pc = "readme"
    /\ LET r == inv[i]
           p == r.project_dir \o <<"README.md">>
       IN  \/ /\ WritesReadme(r.no_readme, Exists(r.current_dir, p))
              /\ \/ /\ files' = Written(r.current_dir, p, EmptyReadme)
                    /\ inv' = [inv EXCEPT ![i] =
                                 Goto(Logged(@, "write", Resolve(r.current_dir, p)),
                                      "pin")]
                 \/ /\ inv' = [inv EXCEPT ![i] = Finished(@, "FilesystemError")]
                    /\ UNCHANGED files
           \/ /\ ~WritesReadme(r.no_readme, Exists(r.current_dir, p))
              /\ inv' = [inv EXCEPT ![i] = Goto(@, "pin")]
              /\ UNCHANGED files
    /\ UNCHANGED <<dirs, calls>>

\* the workspace is not looked at
PinsPython_InWorkspace(no_pin, workspace) == ~no_pin

\* line 115: a pin is wanted and the project is in no workspace
PinsPython(no_pin, workspace) == ~no_pin /\ workspace = None

\* the pin file is created before the interpreter is looked for
PinPython_CreateFirst(i) ==
    /\ inv[i].pc = "pin"
    /\ LET r == inv[i]
           p == r.project_dir \o <<".python-version">>
       IN  \/ /\ ~r.no_pin /\ r.workspace = None
              /\ \/ \E version \in PythonVersions :
                      /\ files' = Written(r.current_dir, p,
                                          PythonVersionFile(version))
                      /\ inv' = [inv EXCEPT ![i] =
                                   Goto(Logged(@, "write",
                                               Resolve(r.current_dir, p)),
                                        "workspace")]
                 \/ /\ files' = Written(r.current_dir, p, PythonVersionFile(""))
                    /\ inv' = [inv EXCEPT ![i] =
                                 Finished(Logged(@, "write",
                                                 Resolve(r.current_dir, p)),
                                          "InterpreterResolutionError")]
           \/ /\ r.no_pin \/ r.workspace # None
              /\ inv' = [inv EXCEPT ![i] = Goto(@, "workspace")]
              /\ UNCHANGED files
    /\ UNCHANGED <<dirs, calls>>

\* lines 114-137: .python-version
PinPython(i) ==
    /\ inv[i].pc = "pin"
    /\ LET r == inv[i]
           p == r.project_dir \o <<".python-version">>
       IN  \/ /\ PinsPython(r.no_pin, r.workspace)
              /\ \/ \E version \in PythonVersions :
                      /\ files' = Written(r.current_dir, p,
                                          PythonVersionFile(version))
                      /\ inv' = [inv EXCEPT ![i] =
                                   Goto(Logged(@, "write",
                                               Resolve(r.current_dir, p)),
                                        "workspace")]
                 \/ \* PythonInstallation::find_or_fetch(..).await? fails
                    /\ inv' = [inv EXCEPT ![i] =
                                 Finished(@, "InterpreterResolutionError")]
                    /\ UNCHANGED files
                 \/ /\ inv' = [inv EXCEPT ![i] = Finished(@, "FilesystemError")]
                    /\ UNCHANGED files
           \/ /\ ~PinsPython(r.no_pin, r.workspace)
              /\ inv' = [inv EXCEPT ![i] = Goto(@, "workspace")]
              /\ UNCHANGED files
    /\ UNCHANGED <<dirs, calls>>

\* the workspace manifest is read again when the package is added to it
AddToWorkspace_Reread(i) ==
    /\ inv[i].pc = "workspace"
    /\ LET r == inv[i]
       IN  \/ /\ r.workspace # None
              /\ LET p == r.workspace[1].root \o <<"pyproject.toml">>
                 IN  \/ /\ files' = Written(r.current_dir, p,
                                            AddWorkspace(files[p], r.project_dir))
                        /\ inv' = [inv EXCEPT ![i] =
                                     Goto([Logged(@, "write",
                                                  Resolve(r.current_dir, p))
                                             EXCEPT !.stderr =
                                               Append(@, <<"adding", r.name[1],
                                                           r.current_dir>>)],
                                          "report")]
                     \/ /\ inv' = [inv EXCEPT ![i] =
                                     Finished(@, "ManifestEditError")]
                        /\ UNCHANGED files
           \/ /\ r.workspace = None
              /\ inv' = [inv EXCEPT ![i] = Goto(@, "report")]
              /\ UNCHANGED files
    /\ UNCHANGED <<dirs, calls>>

\* lines 139-157: the package is added to the workspace
AddToWorkspace(i) ==
    /\ inv[i].pc = "workspace"
    /\ LET r == inv[i]
       IN  \/ /\ r.workspace # None
              /\ LET project   == r.workspace[1]
                     p         == project.root \o <<"pyproject.toml">>
                     pyproject == AddWorkspace(project.pyproject_toml,
                                               r.project_dir)
                 IN  \/ /\ files' = Written(r.current_dir, p, pyproject)
                        /\ inv' = [inv EXCEPT ![i] =
                                     Goto([Logged(@, "write",
                                                  Resolve(r.current_dir, p))
                                             EXCEPT !.stderr =
                                               Append(@, <<"adding", r.name[1],
                                                           r.current_dir>>)],
                                          "report")]
                     \/ \* PyProjectTomlMut::from_toml(..)? or add_workspace(..)?
                        /\ inv' = [inv EXCEPT ![i] =
                                     Finished(@, "ManifestEditError")]
                        /\ UNCHANGED files
                     \/ /\ inv' = [inv EXCEPT ![i] =
                                     Finished(@, "FilesystemError")]
                        /\ UNCHANGED files
           \/ /\ r.workspace = None
              /\ inv' = [inv EXCEPT ![i] = Goto(@, "report")]
              /\ UNCHANGED files
    /\ UNCHANGED <<dirs, calls>>

\* the final line never names the directory
Report_Bare(i) ==
    /\ inv[i].pc = "report"
    /\ inv' = [inv EXCEPT ![i] =
                 Finished([@ EXCEPT !.stderr =
                             Append(@, <<"initialized", inv[i].name[1]>>)],
                          "Success")]
    /\ UNCHANGED <<dirs, files, calls>>

\* lines 159-173: the outcome is reported and `init` returns Ok
Report(i) ==
    /\ inv[i].pc = "report"
    /\ LET r    == inv[i]
           line == IF r.path # None
                   THEN <<"initialized in", r.name[1],
                          Resolve(r.current_dir, r.project_dir)>>
                   ELSE <<"initialized", r.name[1]>>
       IN  inv' = [inv EXCEPT ![i] =
                     Finished([@ EXCEPT !.stderr = Append(@, line)], "Success")]
    /\ UNCHANGED <<dirs, files, calls>>

\* the process of the invocation has ended
Exit(i) ==
    /\ inv[i].pc = "done"
    /\ inv' = [inv EXCEPT ![i] = Idle]
    /\ UNCHANGED <<dirs, files, calls>>

Step(i) ==
    \/ Discover(i)
    \/ ResolveName(i)
    \/ Check(i)
    \/ CreateSrcDir(i)
    \/ WritePyproject(i)
    \/ WriteInitPy(i)
    \/ WriteReadme(i)
    \/ PinPython(i)
    \/ AddToWorkspace(i)
    \/ Report(i)
    \/ Exit(i)

Next == \E i \in SeqProcs : Call(i) \/ Step(i)

Spec == Init /\ [][Next]_vars

\* `uv init`, `uv init pkg` and `uv init "my pkg"`, with or without a name
\* and otherwise the default flags, run again and again
CallRerun(i) ==
    CallWith(i, MaxRuns,
             {None, Some(<<"pkg">>), Some(<<"my pkg">>)},
             {None} \cup { Some(n) : n \in NameArgs },
             {FALSE}, {FALSE}, {TRUE})

NextRerun == \E i \in SeqProcs : CallRerun(i) \/ Step(i)

SpecRerun == Init /\ [][NextRerun]_vars

\* `uv init pkg` and `uv init app` with the default flags, started in /ws by
\* two processes that share the file system and run at the same time:
\* nothing in `init` takes a lock, so their steps interleave freely
CallConc(i) ==
    /\ CallWith(i, MaxConc,
                {Some(<<"pkg">>), Some(<<"app">>)},
                {None},
                {FALSE}, {FALSE}, {TRUE})
    /\ inv'[i].current_dir = <<"/", "ws">>

NextConc == \E i \in Procs : CallConc(i) \/ Step(i)

\* the processes start in a workspace, on a file system without user files
InitConc ==
    /\ Init
    /\ DOMAIN files = { <<"/", "ws", "pyproject.toml">> }

SpecConc == InitConc /\ [][NextConc]_vars

(***************************************************************************)
(* Properties.  They are stated about the arguments of an invocation, the  *)
(* file system it was started on (`pre`), the file system operations it    *)
(* carried out (`log`), the step it returned from (`at`) and its result.   *)
(***************************************************************************)
Started(i) == inv[i].pc # "idle"
Done(i) == inv[i].pc = "done"
Succeeded(i) == Done(i) /\ inv[i].result = "Success"

\* the project directory as the caller gave it: the target path, or the
\* current directory
Requested(i) ==
    IF inv[i].path = None THEN inv[i].current_dir ELSE inv[i].path[1]

\* the directory that path names for the file system
Target(i) == Join(inv[i].current_dir, Requested(i))

ManifestOf(i) == Target(i) \o <<"pyproject.toml">>
ReadmeOf(i) == Target(i) \o <<"README.md">>
PinOf(i) == Target(i) \o <<".python-version">>
WorkspaceManifestOf(i) == inv[i].workspace[1].root \o <<"pyproject.toml">>

HadManifest(i) == ManifestOf(i) \in DOMAIN inv[i].pre.files
Wrote(i, p) == <<"write", p>> \in Range(inv[i].log)

\* file `p` is as it was when invocation i was called
SameAsBefore(i, p) ==
    /\ p \in DOMAIN files <=> p \in DOMAIN inv[i].pre.files
    /\ p \in DOMAIN files => files[p] = inv[i].pre.files[p]

\* invocation i has changed nothing
Untouched(i) ==
    /\ dirs = inv[i].pre.dirs
    /\ files = inv[i].pre.files
    /\ inv[i].log = <<>>

\* C1, as claimed: init fails with AlreadyInitialized if and only if the
\* project directory held a manifest before the call, whatever else is wrong
C1_AlreadyInitializedIffManifest ==
    \A i \in Procs :
        Done(i) => (inv[i].result = "AlreadyInitialized" <=> HadManifest(i))

\* C1, amended: init fails with AlreadyInitialized if and only if the project
\* directory held a manifest before the call and the call got as far as the
\* check, that is, it ended neither in the discovery nor in the name
\* resolution
C1_AlreadyInitializedIffManifestAtCheck ==
    \A i \in Procs :
        Done(i) =>
            ( inv[i].result = "AlreadyInitialized"
              <=> /\ HadManifest(i)
                  /\ inv[i].at \notin {"discover", "name"} )

C1_Witness ==
    \E i \in Procs :
        Done(i) /\ HadManifest(i) /\ inv[i].result = "AlreadyInitialized"

\* C2: a call on a project directory that holds a manifest fails and changes
\* no file and no directory; no step before the source directory is created
\* changes the file system, so a call that fails in discovery, name
\* resolution or the precondition check leaves the file system as it was
C2_FailureBeforeMutation ==
    \A i \in Procs :
        /\ inv[i].pc \in {"discover", "name", "check"} => Untouched(i)
        /\ Done(i) /\ HadManifest(i) =>
               inv[i].result # "Success" /\ Untouched(i)
        /\ Done(i) /\ inv[i].at \in {"discover", "name", "check"} =>
               /\ inv[i].result # "Success"
               /\ Untouched(i)

C2_Witness ==
    \E i \in Procs :
        /\ Done(i) /\ inv[i].at = "check"
        /\ HadManifest(i)
        /\ inv[i].workspace # None
        /\ Untouched(i)

\* C3: a successful call writes .python-version if and only if no_pin is
\* false and no workspace was discovered; a call that does not write it
\* leaves the file as it was
C3_PinIffNoWorkspace ==
    \A i \in Procs :
        Succeeded(i) =>
            /\ Wrote(i, PinOf(i)) <=> (~inv[i].no_pin /\ inv[i].workspace = None)
            /\ Wrote(i, PinOf(i)) =>
                   /\ PinOf(i) \in DOMAIN files
                   /\ files[PinOf(i)].text \in PythonVersions
            /\ ~Wrote(i, PinOf(i)) => SameAsBefore(i, PinOf(i))

C3_Witness ==
    \E i \in Procs :
        /\ Succeeded(i)
        /\ ~inv[i].no_pin
        /\ inv[i].workspace # None
        /\ PinOf(i) \notin DOMAIN files

\* how often x occurs in the sequence s
Count(x, s) == Cardinality({ k \in 1..Len(s) : s[k] = x })

\* C4: a successful call rewrites the manifest of the discovered workspace
\* if and only if a workspace was discovered, and the member list of that
\* manifest then holds the path of the new project exactly once
C4_RegisteredExactlyOnce ==
    \A i \in Procs :
        Succeeded(i) =>
            IF inv[i].workspace = None
            THEN \A k \in 1..Len(inv[i].log) :
                     Target(i) \in Ancestors(inv[i].log[k][2])
            ELSE /\ Wrote(i, WorkspaceManifestOf(i))
                 /\ Count(Requested(i), files[WorkspaceManifestOf(i)].members) = 1

\* C5: a successful call leaves, in a project directory that had no
\* manifest, a manifest that is the fixed template with the resolved name
\* and version "0.1.0"; nothing else of the request shows in it
C5_ManifestFromName ==
    \A i \in Procs :
        Succeeded(i) =>
            /\ ~HadManifest(i)
            /\ ManifestOf(i) \in DOMAIN files
            /\ files[ManifestOf(i)] =
                   [ kind             |-> "pyproject.toml",
                     name             |-> inv[i].name[1],
                     version          |-> "0.1.0",
                     description      |-> "Add your description here",
                     dependencies     |-> <<>>,
                     readme           |-> "README.md",
                     dev_dependencies |-> <<>>,
                     members          |-> <<>> ]

C5_Witness ==
    \E i \in Procs :
        /\ Succeeded(i)
        /\ inv[i].workspace # None
        /\ Wrote(i, WorkspaceManifestOf(i))
        /\ files[ManifestOf(i)].version = "0.1.0"

\* the name C6 expects: the supplied one, or the last segment of the
\* project directory
ExpectedName(i) ==
    IF inv[i].name_arg # None
    THEN inv[i].name_arg[1]
    ELSE Target(i)[Len(Target(i))]

\* C6: the resolved name is the supplied name when there is one and the last
\* segment of the project directory otherwise, and a successful call has
\* used it for the manifest, the source directory and the module greeting
C6_ResolvedName ==
    \A i \in Procs :
        /\ inv[i].name # None => inv[i].name[1] = ExpectedName(i)
        /\ Succeeded(i) =>
               LET module == Target(i) \o <<"src", ExpectedName(i), "__init__.py">>
               IN  /\ inv[i].name # None
                   /\ files[ManifestOf(i)].name = ExpectedName(i)
                   /\ (Target(i) \o <<"src", ExpectedName(i)>>) \in dirs
                   /\ module \in DOMAIN files
                   /\ module \notin DOMAIN inv[i].pre.files =>
                          files[module] = [ kind  |-> "__init__.py",
                                            hello |-> ExpectedName(i) ]

C6_Witness ==
    \E i \in Procs :
        /\ Succeeded(i)
        /\ inv[i].name_arg = None
        /\ inv[i].path # None
        /\ inv[i].name = Some("pkg")
        /\ inv[i].current_dir = <<"/", "ws", "app">>

\* no name is supplied and the last component of the project directory is
\* missing or no valid identifier
NoUsableName(i) ==
    /\ inv[i].name_arg = None
    /\ \/ Len(Requested(i)) = 0
       \/ Requested(i)[Len(Requested(i))] \notin ValidIdentifiers

\* C7: when no name is supplied and the last component of the project
\* directory is empty, unavailable or no valid identifier, the call returns
\* the InvalidName error, and it has changed nothing
C7_InvalidNameReturned ==
    \A i \in Procs :
        (Done(i) /\ NoUsableName(i) /\ inv[i].at # "discover") =>
            inv[i].result = "InvalidName" /\ Untouched(i)

\* C8: a module file or README that existed when the call was made keeps
\* its content, and the call does not write to it
C8_ExistingContentKept ==
    \A i \in Procs :
        Started(i) =>
            \A f \in DOMAIN inv[i].pre.files :
                f[Len(f)] \in {"__init__.py", "README.md"} =>
                    /\ f \in DOMAIN files
                    /\ files[f] = inv[i].pre.files[f]
                    /\ ~Wrote(i, f)

C8_Witness ==
    \E i \in Procs :
        /\ Succeeded(i)
        /\ ~HadManifest(i)
        /\ ~inv[i].no_readme
        /\ ReadmeOf(i) \in DOMAIN inv[i].pre.files
        /\ (Target(i) \o <<"src", inv[i].name[1], "__init__.py">>)
               \in DOMAIN inv[i].pre.files

\* the README step of invocation i has been carried out
PassedReadme(i) ==
    \/ inv[i].pc \in {"pin", "workspace", "report"}
    \/ Done(i) /\ inv[i].at \in {"pin", "workspace", "report"}

\* C9: init creates README.md, empty, if and only if no_readme is false, the
\* file did not exist and the call got through the README step; with
\* no_readme the README is as it was before the call
C9_ReadmeIff ==
    \A i \in Procs :
        Started(i) =>
            /\ Wrote(i, ReadmeOf(i)) =>
                   /\ PassedReadme(i)
                   /\ files[ReadmeOf(i)] = [kind |-> "text", text |-> ""]
            /\ PassedReadme(i) =>
                   ( Wrote(i, ReadmeOf(i))
                     <=> /\ ~inv[i].no_readme
                         /\ ReadmeOf(i) \notin DOMAIN inv[i].pre.files )
            /\ ~Wrote(i, ReadmeOf(i)) => SameAsBefore(i, ReadmeOf(i))
            /\ inv[i].no_readme => SameAsBefore(i, ReadmeOf(i))

C9_Witness ==
    \E i \in Procs :
        /\ Succeeded(i)
        /\ ~inv[i].no_readme
        /\ ReadmeOf(i) \notin DOMAIN inv[i].pre.files
        /\ files[ReadmeOf(i)].text = ""

\* the skeleton of steps 5-7 is on disk as invocation i wrote it
SkeletonOnDisk(i) ==
    LET name   == inv[i].name[1]
        module == Target(i) \o <<"src", name, "__init__.py">>
    IN  /\ (Target(i) \o <<"src", name>>) \in dirs
        /\ ManifestOf(i) \in DOMAIN files
        /\ files[ManifestOf(i)].name = name
        /\ files[ManifestOf(i)].members = <<>>
        /\ module \in DOMAIN files
        /\ IF Wrote(i, module)
           THEN files[module] = [kind |-> "__init__.py", hello |-> name]
           ELSE files[module] = inv[i].pre.files[module]
        /\ IF Wrote(i, ReadmeOf(i))
           THEN files[ReadmeOf(i)] = [kind |-> "text", text |-> ""]
           ELSE SameAsBefore(i, ReadmeOf(i))
        /\ ~inv[i].no_readme => ReadmeOf(i) \in DOMAIN files

HadManifestOfInit(i) ==
    /\ HadManifest(i)
    /\ inv[i].pre.files[ManifestOf(i)].version = "0.1.0"

\* C11, as claimed: once an invocation has written the manifest of a project
\* directory, every later invocation on that directory fails at the
\* precondition check with AlreadyInitialized and changes nothing
C11_RerunFailsAtCheck ==
    \A i \in Procs :
        (Done(i) /\ HadManifestOfInit(i)) =>
            /\ inv[i].at = "check"
            /\ inv[i].result = "AlreadyInitialized"
            /\ Untouched(i)

\* C11, amended: a manifest that an invocation has written stays, whether
\* that invocation then succeeds or fails, and every later invocation on that
\* directory ends without success in the discovery, the name resolution or
\* the precondition check - with AlreadyInitialized when it gets to the check
\* - and changes nothing, so it writes no pin file and registers no member
C11_RerunFailsByCheck ==
    \A i \in Procs :
        /\ Wrote(i, ManifestOf(i)) => ManifestOf(i) \in DOMAIN files
        /\ Started(i) =>
               \A f \in DOMAIN inv[i].pre.files : f \in DOMAIN files
        /\ (Started(i) /\ HadManifestOfInit(i)) =>
               /\ inv[i].pc \in {"discover", "name", "check", "done"}
               /\ Untouched(i)
               /\ ~Wrote(i, PinOf(i))
               /\ Done(i) =>
                      /\ inv[i].at \in {"discover", "name", "check"}
                      /\ inv[i].result # "Success"
                      /\ inv[i].at = "check" <=>
                             inv[i].result = "AlreadyInitialized"

\* the second run after a first run that failed in the pin step
C11_Witness ==
    \E i \in Procs :
        /\ Done(i)
        /\ HadManifestOfInit(i)
        /\ inv[i].result = "AlreadyInitialized"
        /\ inv[i].workspace = None
        /\ ~inv[i].no_pin
        /\ PinOf(i) \notin DOMAIN files

\* the place of a step in the body of `init`
StepNo(pc) ==
    CASE pc = "discover"  -> 1
      [] pc = "name"      -> 3
      [] pc = "check"     -> 4
      [] pc = "src_dir"   -> 5
      [] pc = "pyproject" -> 6
      [] pc = "init_py"   -> 7
      [] pc = "readme"    -> 8
      [] pc = "pin"       -> 9
      [] pc = "workspace" -> 10
      [] pc = "report"    -> 11
      [] OTHER            -> 0

\* the step a file system operation of invocation i belongs to
StepOf(i, entry) ==
    CASE entry[1] = "create_dir_all"                 -> 5
      [] entry[2] = ManifestOf(i)                    -> 6
      [] entry[2][Len(entry[2])] = "__init__.py"     -> 7
      [] entry[2][Len(entry[2])] = "README.md"       -> 8
      [] entry[2][Len(entry[2])] = ".python-version" -> 9
      [] OTHER                                       -> 10

\* the step invocation i is at, or returned from
Position(i) == IF Done(i) THEN StepNo(inv[i].at) ELSE StepNo(inv[i].pc)

\* C12: the file system operations of an invocation happen in the order
\* source directory, manifest, module file, README, pin file, workspace
\* manifest, each at most once and none before the precondition check has
\* passed; the workspace manifest is written only after the README step, the
\* pin that is due is written before the workspace step starts, and the
\* "Initialized project" line is printed last, by the call that succeeds
C12_StepOrder ==
    \A i \in Procs :
        LET log == inv[i].log
            err == inv[i].stderr
        IN  /\ \A k, l \in 1..Len(log) :
                   k < l => StepOf(i, log[k]) < StepOf(i, log[l])
            /\ \A k \in 1..Len(log) :
                   \/ StepOf(i, log[k]) < Position(i)
                   \/ Succeeded(i)
            /\ \A k \in 1..Len(log) :
                   StepOf(i, log[k]) = 10 =>
                       /\ inv[i].workspace # None
                       /\ log[k] = <<"write", WorkspaceManifestOf(i)>>
                       /\ Wrote(i, ManifestOf(i))
            /\ (Started(i) /\ Position(i) >= 10) =>
                   ( Wrote(i, PinOf(i))
                     <=> (~inv[i].no_pin /\ inv[i].workspace = None) )
            /\ \A k \in 1..Len(err) :
                   /\ err[k][1] = "adding" =>
                          inv[i].workspace # None
                          /\ Wrote(i, WorkspaceManifestOf(i))
                   /\ err[k][1] \in {"initialized", "initialized in"} =>
                          Succeeded(i) /\ k = Len(err)
            /\ Succeeded(i) =>
                   err[Len(err)][1] \in {"initialized", "initialized in"}

C12_Witness ==
    \E i \in Procs :
        /\ Succeeded(i)
        /\ inv[i].workspace # None
        /\ Len(inv[i].log) = 5
        /\ inv[i].log[5] = <<"write", WorkspaceManifestOf(i)>>
        /\ Len(inv[i].stderr) = 3

\* the directories at or above the current directory of invocation i that
\* held a manifest when i was called
ManifestDirsAtCall(i) ==
    { a \in Ancestors(inv[i].current_dir) :
        (a \o <<"pyproject.toml">>) \in DOMAIN inv[i].pre.files }

\* C13: discovery ends in one of three ways.  A failure other than "no
\* manifest found" ends the call at the discovery step with that error, with
\* no name resolved, nothing printed but the preview warning and nothing
\* changed.  Otherwise the call goes on, with no workspace exactly when no
\* directory at or above the current directory held a manifest (and then it
\* is never registered anywhere), and else with the project of the nearest
\* such directory, which a successful call registers the new project in.
C13_DiscoveryOutcomes ==
    \A i \in Procs :
        /\ (Done(i) /\ inv[i].at = "discover") =>
               /\ inv[i].result \in {"DiscoveryError", "FilesystemError"}
               /\ inv[i].workspace = None
               /\ inv[i].name = None
               /\ Untouched(i)
               /\ \A k \in 1..Len(inv[i].stderr) : inv[i].stderr[k][1] = "warning"
        /\ (Done(i) /\ inv[i].result = "DiscoveryError") => inv[i].at = "discover"
        /\ (Started(i) /\ Position(i) > 1) =>
               /\ inv[i].workspace = None <=> ManifestDirsAtCall(i) = {}
               /\ inv[i].workspace = None =>
                      /\ \A k \in 1..Len(inv[i].log) : StepOf(i, inv[i].log[k]) < 10
                      /\ \A k \in 1..Len(inv[i].stderr) :
                             inv[i].stderr[k][1] # "adding"
               /\ inv[i].workspace # None =>
                      /\ inv[i].workspace[1].root \in ManifestDirsAtCall(i)
                      /\ \A b \in ManifestDirsAtCall(i) :
                             Len(b) <= Len(inv[i].workspace[1].root)
                      /\ inv[i].workspace[1].pyproject_toml
                             = inv[i].pre.files[WorkspaceManifestOf(i)]
                      /\ Succeeded(i) => Wrote(i, WorkspaceManifestOf(i))

C13_Witness ==
    \E i \in Procs :
        /\ Done(i)
        /\ inv[i].result = "DiscoveryError"
        /\ ManifestDirsAtCall(i) # {}
        /\ inv[i].path # None

\* C14: a pin file that was in a project directory without a manifest when
\* init was called is as it was, whatever the invocation did
C14_ExistingPinKept ==
    \A i \in Procs :
        (Started(i) /\ ~HadManifest(i) /\ PinOf(i) \in DOMAIN inv[i].pre.files) =>
            SameAsBefore(i, PinOf(i))

\* the lines of one of `kinds` that invocation i has printed
Lines(i, kinds) == { k \in 1..Len(inv[i].stderr) : inv[i].stderr[k][1] \in kinds }

\* what a successful invocation has printed, but for the number of lines:
\* the preview warning exactly when preview is disabled, the workspace notice
\* exactly when a workspace was discovered, and one "Initialized project"
\* line, the last, naming the directory exactly when a target path was given
StatusLines(i) ==
    LET err == inv[i].stderr
    IN  /\ Lines(i, {"warning", "adding", "initialized", "initialized in"})
               = 1..Len(err)
        /\ Cardinality(Lines(i, {"warning"})) = IF inv[i].preview THEN 0 ELSE 1
        /\ Cardinality(Lines(i, {"adding"}))
               = IF inv[i].workspace # None THEN 1 ELSE 0
        /\ Lines(i, {"initialized", "initialized in"}) = {Len(err)}
        /\ \A k \in Lines(i, {"warning"}) : k = 1
        /\ err[Len(err)][1] = "initialized in" <=> inv[i].path # None
        /\ err[Len(err)][2] = inv[i].name[1]

\* C15, as claimed: a successful invocation has printed two or three lines,
\* made up as StatusLines says
C15_TwoOrThreeLines ==
    \A i \in Procs :
        Succeeded(i) => (Len(inv[i].stderr) \in {2, 3} /\ StatusLines(i))

\* C15, amended: a successful invocation has printed one to three lines,
\* made up as StatusLines says; it is one line exactly when preview is
\* enabled and no workspace was discovered
C15_OneToThreeLines ==
    \A i \in Procs :
        Succeeded(i) =>
            /\ Len(inv[i].stderr) \in {1, 2, 3}
            /\ StatusLines(i)
            /\ Len(inv[i].stderr) = 1
                   <=> (inv[i].preview /\ inv[i].workspace = None)

C15_Witness ==
    \E i \in Procs :
        /\ Succeeded(i)
        /\ inv[i].preview
        /\ inv[i].workspace = None
        /\ inv[i].path # None
        /\ inv[i].stderr = << <<"initialized in", inv[i].name[1], Target(i)>> >>

\* invocations i and j hold the same discovered workspace project, document
\* included, and register different directories in it
SameWorkspace(i, j) ==
    /\ i # j
    /\ inv[i].workspace # None
    /\ inv[i].workspace = inv[j].workspace
    /\ inv[i].project_dir # inv[j].project_dir

\* what invocation i writes to the workspace manifest: the document it
\* discovered, with its own project directory added
EditOf(i) ==
    [inv[i].workspace[1].pyproject_toml EXCEPT
        !.members = Append(@, inv[i].project_dir)]

\* C16: when two concurrent invocations that discovered the same workspace
\* document have both rewritten the workspace manifest to register different
\* projects, the manifest is the edit of one of them alone: the document they
\* discovered with the member of the last writer and without the member of
\* the other
C16_LastWriteWins ==
    \A i, j \in Procs :
        ( /\ SameWorkspace(i, j)
          /\ Wrote(i, WorkspaceManifestOf(i))
          /\ Wrote(j, WorkspaceManifestOf(j)) ) =>
            LET doc == files[WorkspaceManifestOf(i)]
            IN  /\ doc \in {EditOf(i), EditOf(j)}
                /\ Len(doc.members)
                       = Len(inv[i].workspace[1].pyproject_toml.members) + 1

\* both calls have succeeded and one registration is lost
C16_Witness ==
    /\ SameWorkspace(1, 2)
    /\ Succeeded(1) /\ Succeeded(2)
    /\ Target(1) # Target(2)
    /\ ManifestOf(1) \in DOMAIN files /\ ManifestOf(2) \in DOMAIN files
    /\ files[WorkspaceManifestOf(1)] = EditOf(2)
    /\ Count(inv[1].project_dir, files[WorkspaceManifestOf(1)].members) = 0

\* the nearest directory at or above the current directory of invocation i
\* that held a manifest when i was called
NearestManifestDir(i) ==
    CHOOSE a \in ManifestDirsAtCall(i) :
        \A b \in ManifestDirsAtCall(i) : Len(b) <= Len(a)

\* C17: whether an invocation pins the interpreter and whether it registers
\* the project are fixed by its current directory, the file system it was
\* called on and no_pin, and the target path has no part in it: once past the
\* pin step it has written the pin file exactly when no_pin is off and no
\* directory at or above the current directory held a manifest, and when it
\* succeeds it has rewritten a workspace manifest exactly when one did, namely
\* the nearest, to which the project directory is added
C17_WorkspaceFromCurrentDir ==
    \A i \in Procs :
        /\ (Started(i) /\ Position(i) >= 10) =>
               ( Wrote(i, PinOf(i))
                 <=> (~inv[i].no_pin /\ ManifestDirsAtCall(i) = {}) )
        /\ Succeeded(i) =>
               /\ (\E k \in 1..Len(inv[i].log) : StepOf(i, inv[i].log[k]) = 10)
                      <=> ManifestDirsAtCall(i) # {}
               /\ ManifestDirsAtCall(i) # {} =>
                      LET p == NearestManifestDir(i) \o <<"pyproject.toml">>
                      IN  /\ Wrote(i, p)
                          /\ files[p].members
                                 = Append(inv[i].pre.files[p].members,
                                          Requested(i))

\* a project outside the workspace tree is registered and gets no pin file
C17_Witness ==
    \E i \in Procs :
        /\ Succeeded(i)
        /\ ~inv[i].no_pin
        /\ Target(i) = <<"/", "out">>
        /\ ManifestDirsAtCall(i) = { <<"/", "ws">> }
        /\ files[<<"/", "ws", "pyproject.toml">>].members = << <<"/", "out">> >>
        /\ ~Wrote(i, PinOf(i))

\* file `p` lies in directory `d`, at any depth
Under(d, p) == Len(p) > Len(d) /\ SubSeq(p, 1, Len(d)) = d

\* C18: no invocation writes both the pin file and a workspace manifest, and
\* every file an invocation writes lies in the project directory, but for the
\* manifest of the workspace project it discovered
C18_PinOrWorkspace ==
    \A i \in Procs :
        LET log == inv[i].log
        IN  /\ ~( /\ \E k \in 1..Len(log) : StepOf(i, log[k]) = 9
                  /\ \E k \in 1..Len(log) : StepOf(i, log[k]) = 10 )
            /\ \A k \in 1..Len(log) :
                   log[k][1] = "write" =>
                       \/ Under(Target(i), log[k][2])
                       \/ /\ inv[i].workspace # None
                          /\ log[k][2] = WorkspaceManifestOf(i)
            /\ \A p \in DOMAIN files :
                   (Started(i) /\ ~Under(Target(i), p)) =>
                       \/ SameAsBefore(i, p)
                       \/ /\ inv[i].workspace # None
                          /\ p = WorkspaceManifestOf(i)
                          /\ Wrote(i, p)
                          /\ ~Wrote(i, PinOf(i))

\* a workspace manifest outside the project directory is rewritten by a call
\* that was free to pin, and no pin file is there
C18_Witness ==
    \E i \in Procs :
        /\ Succeeded(i)
        /\ ~inv[i].no_pin
        /\ inv[i].workspace # None
        /\ Wrote(i, WorkspaceManifestOf(i))
        /\ ~Under(Target(i), WorkspaceManifestOf(i))
        /\ ~SameAsBefore(i, WorkspaceManifestOf(i))
        /\ Under(<<"/", "ws">>, Target(i))
        /\ PinOf(i) \notin DOMAIN files
====
